---- MODULE Spec2Model ----
(***************************************************************************)
(* A model of the Fermioniq server helper of CUDA-Q                        *)
(* (FermioniqServerHelper: initialize, getHeaders, createJob,              *)
(* refreshTokens, jobIsDone, extractJobId, constructGetJobPath,            *)
(* processResults, nextResultPollingInterval), of the job lifecycle that   *)
(* drives it and of the asynchronous result handle that is saved and read  *)
(* back between processes.                                                 *)
(*                                                                         *)
(* Encodings.                                                              *)
(*  - A std::string is a sequence of atoms (TLA+ strings that are never    *)
(*    split); operator+ is \o and the empty string is << >>.               *)
(*  - A std::map / RestHeaders / JSON object is a function whose DOMAIN is *)
(*    the set of keys present.                                             *)
(*  - A JSON value is a record [t, s, n]: t its type, s its text when a    *)
(*    string, n its value when a number.                                   *)
(*  - A call's outcome is a record whose field exc is "none" when the call *)
(*    returned and the kind of the exception when it threw.                *)
(***************************************************************************)
EXTENDS Integers, Sequences, FiniteSets, TLC

VARIABLES
  backendConfig,  \* ServerHelper::backendConfig, the helper's configuration map
  token,          \* FermioniqServerHelper::token
  userId,         \* FermioniqServerHelper::userId
  env,            \* the process environment read by std::getenv
  phase,          \* where the helper's owner is: "constructed", "ready", "init_failed"
  logins,         \* number of login exchanges that reached the Transport Client
  last,           \* the last call made on the helper: its name, input and outcome
  issued,         \* the token left by the most recent refresh that succeeded
  seen,           \* the first call of jobIsDone, remembered to compare later calls with
  pc,             \* concurrent callers of refreshTokens: where each one is in its body
  m,              \* the std::mutex local to each caller's invocation: locked or not
  inflight,       \* callers whose client.post has been sent and not yet answered
  response_json,  \* each caller's login response
  headers,        \* the token each caller read into its Authorization header
  observed,       \* the token each caller sees once its call has returned
  state,          \* Job Lifecycle Driver: Created, Submitted, Polling, Done, Failed
  asyncResult,    \* the Async Result handle the driver works on
  twin,           \* the same handle had it never been saved and read back
  posted,         \* the submission response the driver received
  backend,        \* the status response the backend currently gives for the job
  submissions,    \* submission requests sent for the job
  created,        \* calls of createJob made for the job
  lastRequest,    \* the last request this process sent: its kind and path
  polled,         \* the last status response this process received
  processed,      \* the arguments of the call of processResults, if any
  waited,         \* microseconds waited before the last status request
  saved,          \* the serialized Async Result, as last written
  resumes         \* times the handle was read back and resumed in a new process

hvars == <<backendConfig, token, userId, env, phase, logins, last, issued, seen>>
cvars == <<pc, m, inflight, response_json, headers, observed>>
dvars == <<state, asyncResult, twin, posted, backend, submissions, created,
           lastRequest, polled, processed, waited, saved, resumes>>
vars == <<hvars, cvars, dvars>>

-----------------------------------------------------------------------------
(* Bounds of the model. *)

MaxStatusCode == 11
MaxExecutions == 2
MaxLogins == 3
NumCallers == 2
MaxResumes == 2

-----------------------------------------------------------------------------
(* Strings, maps and JSON values. *)

EmptyString == << >>

Put(map, k, v) == [x \in (DOMAIN map) \cup {k} |-> IF x = k THEN v ELSE map[x]]

EmptyMap == [x \in {} |-> EmptyString]

JStr(s) == [t |-> "string", s |-> s, n |-> 0]
JNum(n) == [t |-> "number", s |-> EmptyString, n |-> n]

Digit(d) == CASE d = 0 -> "0" [] d = 1 -> "1" [] d = 2 -> "2" [] d = 3 -> "3"
              [] d = 4 -> "4" [] d = 5 -> "5" [] d = 6 -> "6" [] d = 7 -> "7"
              [] d = 8 -> "8" [] d = 9 -> "9"

RECURSIVE Digits(_)
Digits(n) == IF n < 10 THEN <<Digit(n)>> ELSE Digits(n \div 10) \o <<Digit(n % 10)>>

to_string(n) == IF n < 0 THEN <<"-">> \o Digits(0 - n) ELSE Digits(n)

-----------------------------------------------------------------------------
(* Constants of the class. *)

POLLING_INTERVAL_IN_SECONDS == 1

DEFAULT_URL == <<"https://fermioniq-api-fapp-prod.azurewebsites.net">>
DEFAULT_API_KEY == <<"gCUVmJOKVCdPKRYpgk7nNWM_kTAsZfPeYTbte2sNuKtXAzFuYdj9ag==">>

CFG_URL_KEY == "base_url"
CFG_ACCESS_TOKEN_ID_KEY == "access_token_id"
CFG_ACCESS_TOKEN_SECRET_KEY == "access_token_secret"
\* a variant in which the API key is kept under the access token secret's key
CFG_API_KEY_KEY_Collides == "access_token_secret"

CFG_API_KEY_KEY == "api_key"
CFG_USER_AGENT_KEY == "user_agent"
CFG_REMOTE_CONFIG_KEY == "remote_config"
CFG_NOISE_MODEL_KEY == "noise_model"

getVersion == <<"0.8.0">>

\* a variant that spells the name with a capital
name_Capitalized == <<"Fermioniq">>

name == <<"fermioniq">>

\* the key CUDAQ_REGISTER_TYPE registers the helper under
RegisteredKey == <<"fermioniq">>

-----------------------------------------------------------------------------
(* The Backend Registry: register associates a name with a factory,        *)
(* replacing an earlier one of that name; create answers the helper the    *)
(* factory makes, or UnknownBackend.  At process start the helper's module *)
(* has registered itself.                                                  *)

register(registry, key, factory) ==
  [k \in (DOMAIN registry) \cup {key} |-> IF k = key THEN factory ELSE registry[k]]

create(registry, key) ==
  IF key \in DOMAIN registry
    THEN [exc |-> "none", helper |-> registry[key]]
    ELSE [exc |-> "UnknownBackend", helper |-> ""]

Registry ==
  register([k \in {} |-> ""], RegisteredKey, "cudaq::FermioniqServerHelper")

-----------------------------------------------------------------------------
(* jobIsDone. *)

Returned(v) == [exc |-> "none", ret |-> v, what |-> EmptyString]
Threw(kind, what) == [exc |-> kind, ret |-> FALSE, what |-> what]

\* a variant that never reports a job as done
jobIsDone_NeverDone(getJobResponse) == Returned(FALSE)

\* a variant that answers false, whatever the response, while no token is held
jobIsDone_NeedsToken(getJobResponse) ==
  IF token = EmptyString
    THEN Returned(FALSE)
  ELSE IF "status" \notin DOMAIN getJobResponse
    THEN Threw("out_of_range", <<"status">>)
  ELSE IF getJobResponse["status"].t # "string"
    THEN Threw("type_error", <<"status">>)
  ELSE IF "status_code" \notin DOMAIN getJobResponse
    THEN Threw("out_of_range", <<"status_code">>)
  ELSE IF getJobResponse["status_code"].t # "number"
    THEN Threw("type_error", <<"status_code">>)
  ELSE IF getJobResponse["status"].s # <<"finished">>
    THEN Returned(FALSE)
  ELSE IF getJobResponse["status_code"].n = 0
    THEN Returned(TRUE)
  ELSE Threw("runtime_error", <<"Job failed to execute. Status code = ">>
                                \o to_string(getJobResponse["status_code"].n))

\* a variant that takes "finished" as success whatever the status code
jobIsDone_IgnoresCode(getJobResponse) ==
  IF "status" \notin DOMAIN getJobResponse
    THEN Threw("out_of_range", <<"status">>)
  ELSE IF getJobResponse["status"].t # "string"
    THEN Threw("type_error", <<"status">>)
  ELSE IF "status_code" \notin DOMAIN getJobResponse
    THEN Threw("out_of_range", <<"status_code">>)
  ELSE IF getJobResponse["status_code"].t # "number"
    THEN Threw("type_error", <<"status_code">>)
  ELSE Returned(getJobResponse["status"].s = <<"finished">>)

jobIsDone(getJobResponse) ==
  IF "status" \notin DOMAIN getJobResponse
    THEN Threw("out_of_range", <<"status">>)
  ELSE IF getJobResponse["status"].t # "string"
    THEN Threw("type_error", <<"status">>)
  ELSE IF "status_code" \notin DOMAIN getJobResponse
    THEN Threw("out_of_range", <<"status_code">>)
  ELSE IF getJobResponse["status_code"].t # "number"
    THEN Threw("type_error", <<"status_code">>)
  ELSE LET status == getJobResponse["status"].s
           status_code == getJobResponse["status_code"].n
       IN IF status = <<"finished">>
            THEN IF status_code = 0
                   THEN Returned(TRUE)
                   ELSE Threw("runtime_error",
                              <<"Job failed to execute. Status code = ">>
                                \o to_string(status_code))
            ELSE Returned(FALSE)

-----------------------------------------------------------------------------
(* Configuration helpers. *)

getValueOrDefault(config, key, defaultValue) ==
  IF key \in DOMAIN config THEN config[key] ELSE defaultValue

\* a variant that answers the default for a variable that is not set, required or not
getEnvVar_DefaultsWhenMissing(environment, key, defaultVal, isRequired) ==
  IF key \notin DOMAIN environment
    THEN [exc |-> "none", val |-> defaultVal, key |-> key]
    ELSE [exc |-> "none", val |-> environment[key], key |-> key]

\* isRequired and not set: std::runtime_error; defaultVal only when not required
getEnvVar(environment, key, defaultVal, isRequired) ==
  IF key \notin DOMAIN environment
    THEN IF isRequired
           THEN [exc |-> "runtime_error", val |-> EmptyString, key |-> key]
           ELSE [exc |-> "none", val |-> defaultVal, key |-> key]
    ELSE [exc |-> "none", val |-> environment[key], key |-> key]

keyExists(cfg, key) == key \in DOMAIN cfg

-----------------------------------------------------------------------------
(* getHeaders: the header map, or std::out_of_range from backendConfig.at  *)
(* when the user agent was never stored.                                   *)

\* a variant that sets the API key and authorization headers even when empty
getHeaders_SetsEmpty(cfg, tok) ==
  LET h0 == EmptyMap
      h1 == IF keyExists(cfg, CFG_API_KEY_KEY)
              THEN Put(h0, "x-functions-key", cfg[CFG_API_KEY_KEY])
              ELSE h0
      h2 == Put(h1, "Authorization", tok)
      h3 == Put(h2, "Content-Type", <<"application/json">>)
  IN IF ~keyExists(cfg, CFG_USER_AGENT_KEY)
       THEN [exc |-> "out_of_range", headers |-> EmptyMap]
       ELSE [exc |-> "none", headers |-> Put(h3, "User-Agent", cfg[CFG_USER_AGENT_KEY])]

getHeaders(cfg, tok) ==
  LET h0 == EmptyMap
      h1 == IF keyExists(cfg, CFG_API_KEY_KEY) /\ cfg[CFG_API_KEY_KEY] # EmptyString
              THEN Put(h0, "x-functions-key", cfg[CFG_API_KEY_KEY])
              ELSE h0
      h2 == IF tok # EmptyString THEN Put(h1, "Authorization", tok) ELSE h1
      h3 == Put(h2, "Content-Type", <<"application/json">>)
  IN IF ~keyExists(cfg, CFG_USER_AGENT_KEY)
       THEN [exc |-> "out_of_range", headers |-> EmptyMap]
       ELSE [exc |-> "none", headers |-> Put(h3, "User-Agent", cfg[CFG_USER_AGENT_KEY])]

-----------------------------------------------------------------------------
(* refreshTokens.  The reply of the Transport Client is either a transport *)
(* error or the JSON object of the login response.  The steps of the body, *)
(* in order: getHeaders, the request body from the two credentials, the    *)
(* post, then token, userId and expiration_date read from the response.    *)
(* response_json[key] on a missing key yields null, and get<std::string>   *)
(* of anything but a string throws type_error.                             *)

LoginRequest(cfg, tok) ==
  [base    |-> cfg[CFG_URL_KEY],
   path    |-> <<"/api/login">>,
   body    |-> [access_token_id |-> cfg[CFG_ACCESS_TOKEN_ID_KEY],
                access_token_secret |-> cfg[CFG_ACCESS_TOKEN_SECRET_KEY]],
   headers |-> getHeaders(cfg, tok).headers]

NoRequest == [base |-> EmptyString, path |-> EmptyString,
              body |-> EmptyMap, headers |-> EmptyMap]

\* whether the statements before client.post run without throwing
CanPost(cfg, tok) ==
  /\ getHeaders(cfg, tok).exc = "none"
  /\ keyExists(cfg, CFG_ACCESS_TOKEN_ID_KEY)
  /\ keyExists(cfg, CFG_ACCESS_TOKEN_SECRET_KEY)
  /\ keyExists(cfg, CFG_URL_KEY)

HasString(json, key) == key \in DOMAIN json /\ json[key].t = "string"

\* a variant that keeps a held token unless the refresh is forced
refreshTokens_SkipsWhenHeld(force_refresh, cfg, tok, uid, reply) ==
  IF ~CanPost(cfg, tok)
    THEN [exc |-> "out_of_range", token |-> tok, userId |-> uid,
          sent |-> FALSE, request |-> NoRequest]
  ELSE IF ~force_refresh /\ tok # EmptyString
    THEN [exc |-> "none", token |-> tok, userId |-> uid,
          sent |-> FALSE, request |-> NoRequest]
  ELSE LET req == LoginRequest(cfg, tok)
       IN IF reply.kind # "ok"
            THEN [exc |-> "transport_error", token |-> tok, userId |-> uid,
                  sent |-> TRUE, request |-> req]
          ELSE IF ~HasString(reply.body, "jwt_token")
            THEN [exc |-> "type_error", token |-> tok, userId |-> uid,
                  sent |-> TRUE, request |-> req]
          ELSE IF ~HasString(reply.body, "user_id")
            THEN [exc |-> "type_error", token |-> reply.body["jwt_token"].s,
                  userId |-> uid, sent |-> TRUE, request |-> req]
          ELSE IF ~HasString(reply.body, "expiration_date")
            THEN [exc |-> "type_error", token |-> reply.body["jwt_token"].s,
                  userId |-> reply.body["user_id"].s, sent |-> TRUE, request |-> req]
          ELSE [exc |-> "none", token |-> reply.body["jwt_token"].s,
                userId |-> reply.body["user_id"].s, sent |-> TRUE, request |-> req]

refreshTokens(force_refresh, cfg, tok, uid, reply) ==
  IF ~CanPost(cfg, tok)
    THEN [exc |-> "out_of_range", token |-> tok, userId |-> uid,
          sent |-> FALSE, request |-> NoRequest]
  ELSE LET req == LoginRequest(cfg, tok)
       IN IF reply.kind # "ok"
            THEN [exc |-> "transport_error", token |-> tok, userId |-> uid,
                  sent |-> TRUE, request |-> req]
          ELSE IF ~HasString(reply.body, "jwt_token")
            THEN [exc |-> "type_error", token |-> tok, userId |-> uid,
                  sent |-> TRUE, request |-> req]
          ELSE IF ~HasString(reply.body, "user_id")
            THEN [exc |-> "type_error", token |-> reply.body["jwt_token"].s,
                  userId |-> uid, sent |-> TRUE, request |-> req]
          ELSE IF ~HasString(reply.body, "expiration_date")
            THEN [exc |-> "type_error", token |-> reply.body["jwt_token"].s,
                  userId |-> reply.body["user_id"].s, sent |-> TRUE, request |-> req]
          ELSE [exc |-> "none", token |-> reply.body["jwt_token"].s,
                userId |-> reply.body["user_id"].s, sent |-> TRUE, request |-> req]

-----------------------------------------------------------------------------
(* initialize: the assignments to backendConfig in order, stopping at the  *)
(* first getEnvVar that throws, then refreshTokens(true).                  *)

initialize(cfg0, tok, uid, environment, config, reply) ==
  LET c1 == Put(cfg0, CFG_URL_KEY, getValueOrDefault(config, "base_url", DEFAULT_URL))
      c2 == Put(c1, CFG_API_KEY_KEY, getValueOrDefault(config, "api_key", DEFAULT_API_KEY))
      id == getEnvVar(environment, "FERMIONIQ_ACCESS_TOKEN_ID", EmptyString, TRUE)
      c3 == Put(c2, CFG_ACCESS_TOKEN_ID_KEY, id.val)
      secret == getEnvVar(environment, "FERMIONIQ_ACCESS_TOKEN_SECRET", EmptyString, TRUE)
      c4 == Put(c3, CFG_ACCESS_TOKEN_SECRET_KEY, secret.val)
      c5 == Put(c4, CFG_USER_AGENT_KEY, <<"cudaq/">> \o getVersion)
      c6 == IF "remote_config" \in DOMAIN config
              THEN Put(c5, CFG_REMOTE_CONFIG_KEY, config["remote_config"]) ELSE c5
      c7 == IF "noise_model" \in DOMAIN config
              THEN Put(c6, CFG_NOISE_MODEL_KEY, config["noise_model"]) ELSE c6
      r == refreshTokens(TRUE, c7, tok, uid, reply)
  IN IF id.exc # "none"
       THEN [exc |-> id.exc, missing |-> id.key, backendConfig |-> c2,
             token |-> tok, userId |-> uid, sent |-> FALSE]
     ELSE IF secret.exc # "none"
       THEN [exc |-> secret.exc, missing |-> secret.key, backendConfig |-> c3,
             token |-> tok, userId |-> uid, sent |-> FALSE]
     ELSE [exc |-> r.exc, missing |-> "", backendConfig |-> c7,
           token |-> r.token, userId |-> r.userId, sent |-> r.sent]

-----------------------------------------------------------------------------
(* extractJobId: postResponse.at("id") converted to std::string.           *)

\* a variant that answers the empty string whatever the response holds
extractJobId_Blank(postResponse) ==
  [exc |-> "none", id |-> EmptyString]

extractJobId(postResponse) ==
  IF "id" \notin DOMAIN postResponse
    THEN [exc |-> "out_of_range", id |-> EmptyString]
  ELSE IF postResponse["id"].t # "string"
    THEN [exc |-> "type_error", id |-> EmptyString]
  ELSE [exc |-> "none", id |-> postResponse["id"].s]

-----------------------------------------------------------------------------
(* constructGetJobPath, from the submission response and from a job id.    *)

constructGetJobPathFromResponse(cfg, postResponse) ==
  IF ~keyExists(cfg, CFG_URL_KEY)
    THEN [exc |-> "out_of_range", path |-> EmptyString]
    ELSE [exc |-> "none", path |-> cfg[CFG_URL_KEY] \o <<"/api/jobs/">>]

\* a variant that leaves the job id out of the path
constructGetJobPath_NoId(cfg, jobId) ==
  IF ~keyExists(cfg, CFG_URL_KEY)
    THEN [exc |-> "out_of_range", path |-> EmptyString]
    ELSE [exc |-> "none", path |-> cfg[CFG_URL_KEY] \o <<"/api/jobs/">>]

constructGetJobPath(cfg, jobId) ==
  IF ~keyExists(cfg, CFG_URL_KEY)
    THEN [exc |-> "out_of_range", path |-> EmptyString]
    ELSE [exc |-> "none", path |-> cfg[CFG_URL_KEY] \o <<"/api/jobs/">> \o jobId]

-----------------------------------------------------------------------------
(* processResults returns a default-constructed sample_result (no counts), *)
(* whatever the response holds.                                            *)

EmptySampleResult == [counts |-> EmptyMap]

processResults(postJobResponse, jobID) ==
  [exc |-> "none", result |-> EmptySampleResult]

\* a variant that asks for no wait
nextResultPollingInterval_NoWait(postResponse) == 0

\* in microseconds
nextResultPollingInterval(postResponse) == POLLING_INTERVAL_IN_SECONDS * 1000000

-----------------------------------------------------------------------------
(* createJob: one job object whose "circuit" array receives, for each      *)
(* execution in order, the format marker and then the execution's code;    *)
(* "config" and "noise_model" receive one entry per execution.  The        *)
(* payload is an array holding that one job.                               *)

JNull == [t |-> "null", s |-> EmptyString, n |-> 0]

RECURSIVE PushCircuits(_, _)
PushCircuits(circuitCodes, acc) ==
  IF circuitCodes = << >>
    THEN acc
    ELSE PushCircuits(Tail(circuitCodes),
           [circuits     |-> acc.circuits \o <<(<<"__qir_base_compressed__">>),
                                                Head(circuitCodes).code>>,
            configs      |-> Append(acc.configs, EmptyMap),
            noise_models |-> Append(acc.noise_models, JNull)])

\* a variant that builds one job object per execution
createJob_PerCircuit(cfg, tok, circuitCodes) ==
  LET JobOf(circuitCode) ==
        LET j0 == Put(EmptyMap, "circuit", circuitCode.code)
        IN IF keyExists(cfg, CFG_REMOTE_CONFIG_KEY)
             THEN Put(j0, "remote_config", cfg[CFG_REMOTE_CONFIG_KEY]) ELSE j0
      h == getHeaders(cfg, tok)
  IN IF ~keyExists(cfg, CFG_URL_KEY) \/ h.exc # "none"
       THEN [exc |-> "out_of_range", path |-> EmptyString,
             headers |-> EmptyMap, payload |-> << >>]
       ELSE [exc |-> "none", path |-> cfg[CFG_URL_KEY] \o <<"/api/jobs">>,
             headers |-> h.headers,
             payload |-> [i \in 1..Len(circuitCodes) |-> JobOf(circuitCodes[i])]]

\* a variant that gives the job one configuration entry, however many circuits
createJob_OneConfig(cfg, tok, circuitCodes) ==
  LET arrays == PushCircuits(circuitCodes,
                  [circuits |-> << >>, configs |-> << >>, noise_models |-> << >>])
      j0 == EmptyMap
      j1 == IF keyExists(cfg, CFG_REMOTE_CONFIG_KEY)
              THEN Put(j0, "remote_config", cfg[CFG_REMOTE_CONFIG_KEY]) ELSE j0
      j2 == Put(j1, "circuit", arrays.circuits)
      j3 == Put(j2, "config", <<EmptyMap>>)
      j4 == Put(j3, "noise_model", arrays.noise_models)
      j5 == Put(j4, "verbosity_level", 1)
      job == Put(j5, "project_id", <<"943977db-7264-4b66-addf-c9d6085d9d8f">>)
      h == getHeaders(cfg, tok)
  IN IF ~keyExists(cfg, CFG_URL_KEY) \/ h.exc # "none"
       THEN [exc |-> "out_of_range", path |-> EmptyString,
             headers |-> EmptyMap, payload |-> << >>]
       ELSE [exc |-> "none", path |-> cfg[CFG_URL_KEY] \o <<"/api/jobs">>,
             headers |-> h.headers, payload |-> <<job>>]

createJob(cfg, tok, circuitCodes) ==
  LET arrays == PushCircuits(circuitCodes,
                  [circuits |-> << >>, configs |-> << >>, noise_models |-> << >>])
      j0 == EmptyMap
      j1 == IF keyExists(cfg, CFG_REMOTE_CONFIG_KEY)
              THEN Put(j0, "remote_config", cfg[CFG_REMOTE_CONFIG_KEY]) ELSE j0
      j2 == Put(j1, "circuit", arrays.circuits)
      j3 == Put(j2, "config", arrays.configs)
      j4 == Put(j3, "noise_model", arrays.noise_models)
      j5 == Put(j4, "verbosity_level", 1)
      job == Put(j5, "project_id", <<"943977db-7264-4b66-addf-c9d6085d9d8f">>)
      h == getHeaders(cfg, tok)
  IN IF ~keyExists(cfg, CFG_URL_KEY) \/ h.exc # "none"
       THEN [exc |-> "out_of_range", path |-> EmptyString,
             headers |-> EmptyMap, payload |-> << >>]
       ELSE [exc |-> "none", path |-> cfg[CFG_URL_KEY] \o <<"/api/jobs">>,
             headers |-> h.headers, payload |-> <<job>>]

-----------------------------------------------------------------------------
(* Inputs: caller configurations, environments, replies of the Transport   *)
(* Client to the login request, status responses, submission responses and *)
(* lists of kernel executions.                                             *)

ObjectsOver(choices) ==
  {f \in UNION {[D -> UNION {choices[k] : k \in D}] : D \in SUBSET (DOMAIN choices)} :
     \A k \in DOMAIN f : f[k] \in choices[k]}

Configs ==
  ObjectsOver([base_url            |-> {<<"https://h">>},
               api_key             |-> {<<"k">>, EmptyString},
               remote_config       |-> {<<"rc">>},
               access_token_id     |-> {<<"cfg-id">>},
               access_token_secret |-> {<<"cfg-secret">>}])

Envs ==
  ObjectsOver([FERMIONIQ_ACCESS_TOKEN_ID     |-> {<<"id">>},
               FERMIONIQ_ACCESS_TOKEN_SECRET |-> {<<"secret">>}])

Tokens == {<<"t1">>, <<"t2">>}

LoginBodies ==
  ObjectsOver([jwt_token       |-> {JStr(t) : t \in Tokens \cup {EmptyString}},
               user_id         |-> {JStr(<<"u1">>)},
               expiration_date |-> {JStr(<<"e1">>)}])

Replies ==
  {[kind |-> "ok", body |-> b] : b \in LoginBodies}
    \cup {[kind |-> "transport_error", body |-> EmptyMap]}

\* negative, zero, one-digit and two-digit status codes
StatusCodes == {0 - 1, 0, 1, 7, MaxStatusCode}

StatusResponses ==
  ObjectsOver([status      |-> {JStr(<<"queued">>), JStr(<<"running">>),
                                JStr(<<"finished">>), JStr(<<"paused">>), JNum(1)},
               status_code |-> {JNum(c) : c \in StatusCodes} \cup {JStr(<<"0">>)}])

\* status responses handed to processResults: with or without the fields
\* jobIsDone reads, with or without an encoded result
ResultResponses ==
  ObjectsOver([status      |-> {JStr(<<"finished">>)},
               status_code |-> {JNum(0)},
               output      |-> {JStr(<<"00:5,11:5">>)}])

JobIds == {<<"job-1">>, <<"job-2">>}

PostResponses ==
  ObjectsOver([id     |-> {JStr(j) : j \in JobIds} \cup {JNum(7)},
               status |-> {JStr(<<"queued">>)}])

Codes == {<<"qir-a">>, <<"qir-b">>}

KernelExecutions == [name : {<<"ghz">>}, code : Codes]

ExecutionLists == UNION {[1..n -> KernelExecutions] : n \in 0..MaxExecutions}

-----------------------------------------------------------------------------
(* The helper used by one caller: constructed, initialized once, then any  *)
(* of its methods called in any order.                                     *)

NoCall == [op |-> "none", arg |-> << >>, out |-> << >>, tokenBefore |-> EmptyString]

Callers == 1..NumCallers

NoReply == [kind |-> "none", body |-> EmptyMap]

NoCallers ==
  /\ pc = [t \in Callers |-> "idle"]
  /\ m = [t \in Callers |-> FALSE]
  /\ inflight = {}
  /\ response_json = [t \in Callers |-> NoReply]
  /\ headers = [t \in Callers |-> EmptyString]
  /\ observed = [t \in Callers |-> EmptyString]

NoError == [exc |-> "none", what |-> EmptyString]

NoAsyncResult ==
  [name |-> EmptyString, jobId |-> EmptyString, path |-> EmptyString,
   config |-> EmptyMap, status |-> "none", result |-> << >>, error |-> NoError]

NoRequestSent == [kind |-> "none", path |-> EmptyString]

NoDriver ==
  /\ state = "Created"
  /\ asyncResult = NoAsyncResult
  /\ twin = NoAsyncResult
  /\ posted = EmptyMap
  /\ backend = EmptyMap
  /\ submissions = 0
  /\ created = 0
  /\ lastRequest = NoRequestSent
  /\ polled = EmptyMap
  /\ processed = << >>
  /\ waited = 0
  /\ saved = << >>
  /\ resumes = 0

Init ==
  /\ NoCallers
  /\ NoDriver
  /\ backendConfig = EmptyMap
  /\ token = EmptyString
  /\ userId = EmptyString
  /\ env \in Envs
  /\ phase = "constructed"
  /\ logins = 0
  /\ last = NoCall
  /\ issued = EmptyString
  /\ seen = NoCall

Initialize ==
  /\ phase = "constructed"
  /\ \E config \in Configs, reply \in Replies :
       LET r == initialize(backendConfig, token, userId, env, config, reply)
       IN /\ backendConfig' = r.backendConfig
          /\ token' = r.token
          /\ userId' = r.userId
          /\ phase' = IF r.exc = "none" THEN "ready" ELSE "init_failed"
          /\ logins' = IF r.sent THEN logins + 1 ELSE logins
          /\ last' = [op |-> "initialize", arg |-> config, out |-> r,
                      tokenBefore |-> token]
          /\ issued' = IF r.exc = "none" THEN r.token ELSE issued
  /\ UNCHANGED <<env, seen, cvars, dvars>>

\* a variant that also keeps the token in the configuration map
RefreshTokens_StoresInConfig ==
  /\ phase = "ready"
  /\ logins < MaxLogins
  /\ \E force_refresh \in BOOLEAN, reply \in Replies :
       LET r == refreshTokens(force_refresh, backendConfig, token, userId, reply)
       IN /\ token' = r.token
          /\ userId' = r.userId
          /\ backendConfig' = [k \in (DOMAIN backendConfig) \cup {"token"} |->
                                 IF k = "token" THEN r.token ELSE backendConfig[k]]
          /\ logins' = IF r.sent THEN logins + 1 ELSE logins
          /\ last' = [op |-> "refreshTokens", arg |-> <<force_refresh, reply>>,
                      out |-> r, tokenBefore |-> token, userIdBefore |-> userId]
          /\ issued' = IF r.exc = "none" THEN r.token ELSE issued
  /\ UNCHANGED <<env, phase, seen, cvars, dvars>>

RefreshTokens ==
  /\ phase = "ready"
  /\ logins < MaxLogins
  /\ \E force_refresh \in BOOLEAN, reply \in Replies :
       LET r == refreshTokens(force_refresh, backendConfig, token, userId, reply)
       IN /\ token' = r.token
          /\ userId' = r.userId
          /\ logins' = IF r.sent THEN logins + 1 ELSE logins
          /\ last' = [op |-> "refreshTokens", arg |-> <<force_refresh, reply>>,
                      out |-> r, tokenBefore |-> token, userIdBefore |-> userId]
          /\ issued' = IF r.exc = "none" THEN r.token ELSE issued
  /\ UNCHANGED <<backendConfig, env, phase, seen, cvars, dvars>>

GetHeaders ==
  /\ phase = "ready"
  /\ last' = [op |-> "getHeaders", arg |-> << >>,
              out |-> getHeaders(backendConfig, token), tokenBefore |-> token]
  /\ UNCHANGED <<backendConfig, token, userId, env, phase, logins, issued, seen,
                 cvars, dvars>>

JobIsDone ==
  /\ phase = "ready"
  /\ \E getJobResponse \in StatusResponses :
       last' = [op |-> "jobIsDone", arg |-> getJobResponse,
                out |-> jobIsDone(getJobResponse), tokenBefore |-> token]
  /\ UNCHANGED <<backendConfig, token, userId, env, phase, logins, issued, seen,
                 cvars, dvars>>

ExtractJobId ==
  /\ phase = "ready"
  /\ \E postResponse \in PostResponses :
       last' = [op |-> "extractJobId", arg |-> postResponse,
                out |-> extractJobId(postResponse), tokenBefore |-> token]
  /\ UNCHANGED <<backendConfig, token, userId, env, phase, logins, issued, seen,
                 cvars, dvars>>

CreateJob ==
  /\ phase = "ready"
  /\ \E circuitCodes \in ExecutionLists :
       last' = [op |-> "createJob", arg |-> circuitCodes,
                out |-> createJob(backendConfig, token, circuitCodes),
                tokenBefore |-> token]
  /\ UNCHANGED <<backendConfig, token, userId, env, phase, logins, issued, seen,
                 cvars, dvars>>

\* both shapes of constructGetJobPath, on a submission response and on a job id
ConstructGetJobPath ==
  /\ phase = "ready"
  /\ \E postResponse \in PostResponses, jobId \in JobIds :
       last' = [op |-> "constructGetJobPath", arg |-> <<postResponse, jobId>>,
                out |-> [fromResponse |->
                           constructGetJobPathFromResponse(backendConfig, postResponse),
                         fromId |-> constructGetJobPath(backendConfig, jobId)],
                tokenBefore |-> token]
  /\ UNCHANGED <<backendConfig, token, userId, env, phase, logins, issued, seen,
                 cvars, dvars>>

ProcessResults ==
  /\ phase = "ready"
  /\ \E postJobResponse \in ResultResponses, jobID \in JobIds :
       last' = [op |-> "processResults", arg |-> <<postJobResponse, jobID>>,
                out |-> processResults(postJobResponse, jobID),
                tokenBefore |-> token]
  /\ UNCHANGED <<backendConfig, token, userId, env, phase, logins, issued, seen,
                 cvars, dvars>>

NextResultPollingInterval ==
  /\ phase = "ready"
  /\ \E postResponse \in PostResponses :
       last' = [op |-> "nextResultPollingInterval", arg |-> postResponse,
                out |-> nextResultPollingInterval(postResponse),
                tokenBefore |-> token]
  /\ UNCHANGED <<backendConfig, token, userId, env, phase, logins, issued, seen,
                 cvars, dvars>>

Name ==
  /\ phase \in {"constructed", "ready"}
  /\ last' = [op |-> "name", arg |-> << >>, out |-> name, tokenBefore |-> token]
  /\ UNCHANGED <<backendConfig, token, userId, env, phase, logins, issued, seen,
                 cvars, dvars>>

Next ==
  \/ Initialize
  \/ RefreshTokens
  \/ GetHeaders
  \/ JobIsDone
  \/ ExtractJobId
  \/ CreateJob
  \/ ConstructGetJobPath
  \/ ProcessResults
  \/ NextResultPollingInterval
  \/ Name

Spec == Init /\ [][Next]_vars

-----------------------------------------------------------------------------
(* Properties of the helper's methods. *)

IsStatus(response, text) ==
  /\ "status" \in DOMAIN response
  /\ response["status"].t = "string"
  /\ response["status"].s = <<text>>

HasOtherStatus(response) ==
  /\ "status" \in DOMAIN response
  /\ response["status"].t = "string"
  /\ response["status"].s # <<"finished">>

HasCode(response) ==
  /\ "status_code" \in DOMAIN response
  /\ response["status_code"].t = "number"

\* C1: for every status response, jobIsDone returns true when the status is
\* "finished" and the status code is 0, raises when the status is "finished"
\* and the status code is not 0, and returns false for every response whose
\* status is something else, whatever other fields the response carries or
\* lacks.
C1_JobIsDoneVerdict ==
  last.op = "jobIsDone" =>
    LET r == last.arg
        o == last.out
    IN /\ (IsStatus(r, "finished") /\ HasCode(r) /\ r["status_code"].n = 0)
            => (o.exc = "none" /\ o.ret = TRUE)
       /\ (IsStatus(r, "finished") /\ HasCode(r) /\ r["status_code"].n # 0)
            => o.exc = "runtime_error"
       /\ HasOtherStatus(r) => (o.exc = "none" /\ o.ret = FALSE)

\* C6 (as claimed): when refreshTokens fails on a login response that lacks a
\* field the helper reads, the token held before the call is still held after
\* it and is the one getHeaders sends.
C6_FailedRefreshKeepsToken ==
  (last.op = "refreshTokens" /\ last.out.exc = "type_error") =>
    /\ token = last.tokenBefore
    /\ last.tokenBefore # EmptyString =>
         getHeaders(backendConfig, token).headers["Authorization"] = last.tokenBefore

\* C9: createJob on N >= 1 executions returns a payload holding exactly one
\* job object, whose "circuit" array holds the code of every one of the N
\* executions, and that job carries "remote_config" exactly when the
\* configuration given to initialize had that key (with the configured value).
C9_OneJobForAllCircuits ==
  /\ (last.op = "initialize" /\ last.out.exc = "none") =>
       /\ keyExists(backendConfig, CFG_REMOTE_CONFIG_KEY)
            <=> ("remote_config" \in DOMAIN last.arg)
       /\ keyExists(backendConfig, CFG_REMOTE_CONFIG_KEY)
            => backendConfig[CFG_REMOTE_CONFIG_KEY] = last.arg["remote_config"]
  /\ (last.op = "createJob" /\ Len(last.arg) >= 1) =>
       LET N == Len(last.arg)
           payload == last.out.payload
       IN /\ last.out.exc = "none"
          /\ Len(payload) = 1
          /\ Len(payload[1]["circuit"]) = 2 * N
          /\ \A i \in 1..N : payload[1]["circuit"][2 * i] = last.arg[i].code
          /\ ("remote_config" \in DOMAIN payload[1])
               <=> keyExists(backendConfig, CFG_REMOTE_CONFIG_KEY)
          /\ ("remote_config" \in DOMAIN payload[1])
               => payload[1]["remote_config"] = backendConfig[CFG_REMOTE_CONFIG_KEY]

\* C9 witness: a job built from two executions with a remote-config id configured
C9_Witness ==
  /\ last.op = "createJob"
  /\ Len(last.arg) = 2
  /\ last.arg[1].code # last.arg[2].code
  /\ last.out.exc = "none"
  /\ "remote_config" \in DOMAIN last.out.payload[1]

C11_BothShapesSamePath ==
  (/\ last.op = "constructGetJobPath"
   /\ HasString(last.arg[1], "id")
   /\ last.arg[1]["id"].s = last.arg[2]) =>
    /\ last.out.fromResponse = last.out.fromId
    /\ \A other \in JobIds \ {last.arg[2]} :
         /\ constructGetJobPath(backendConfig, other).path # last.out.fromId.path
         /\ constructGetJobPath(backendConfig, other).path # last.out.fromResponse.path

\* C12 (as claimed): on a status response that jobIsDone accepts as done,
\* processResults either fails or returns a Sample Result that is not the
\* empty one, and a response carrying an encoded result gives a result with
\* counts.
C12_NeverEmptyResult ==
  (last.op = "processResults" /\ jobIsDone(last.arg[1]) = Returned(TRUE)) =>
    \/ last.out.exc # "none"
    \/ /\ last.out.result # EmptySampleResult
       /\ DOMAIN last.out.result.counts # {}

\* the required keys, in the order initialize resolves them: the key in the
\* configuration map and the environment variable read for it
RequiredKeys ==
  <<[cfg |-> CFG_ACCESS_TOKEN_ID_KEY, env |-> "FERMIONIQ_ACCESS_TOKEN_ID"],
    [cfg |-> CFG_ACCESS_TOKEN_SECRET_KEY, env |-> "FERMIONIQ_ACCESS_TOKEN_SECRET"]>>

C14_HeadersCarryCurrentToken ==
  (/\ last.op \in {"getHeaders", "createJob"}
   /\ last.out.exc = "none"
   /\ issued # EmptyString) =>
    /\ "Authorization" \in DOMAIN last.out.headers
    /\ last.out.headers["Authorization"] = issued

\* C15: in every state after initialize, getHeaders returns normally, none of
\* its headers has an empty value, the API key header is there exactly when
\* the API key is not empty, the authorization header exactly when a token is
\* held, and Content-Type and User-Agent are always there.
C15_NoEmptyHeaderValue ==
  last.op = "getHeaders" =>
    LET h == last.out.headers
    IN /\ last.out.exc = "none"
       /\ \A k \in DOMAIN h : h[k] # EmptyString
       /\ {"Content-Type", "User-Agent"} \subseteq DOMAIN h
       /\ ("x-functions-key" \in DOMAIN h) <=> (backendConfig[CFG_API_KEY_KEY] # EmptyString)
       /\ ("x-functions-key" \in DOMAIN h) => h["x-functions-key"] = backendConfig[CFG_API_KEY_KEY]
       /\ ("Authorization" \in DOMAIN h) <=> (token # EmptyString)

\* C15 witness: the API key was configured empty and the login gave an empty
\* token; getHeaders returned Content-Type and User-Agent only
C15_Witness ==
  /\ last.op = "getHeaders"
  /\ backendConfig[CFG_API_KEY_KEY] = EmptyString
  /\ token = EmptyString
  /\ DOMAIN last.out.headers = {"Content-Type", "User-Agent"}

\* C16: what name() returns is the key the helper is registered under, so
\* create on it resolves, and resolves to this helper's implementation,
\* before and after initialize.
C16_NameIsRegistryKey ==
  last.op = "name" =>
    /\ last.out \in DOMAIN Registry
    /\ create(Registry, last.out) =
         [exc |-> "none", helper |-> "cudaq::FermioniqServerHelper"]

\* C16 witness: name() called on an initialized helper, and create on it resolved
C16_Witness ==
  /\ last.op = "name"
  /\ phase = "ready"
  /\ create(Registry, last.out).exc = "none"

\* C19: refreshTokens(false) and refreshTokens(true), from the same helper
\* state and with the same login response, have the same outcome: each sends
\* one login request, the same one, and leaves the same token and user
\* identity.
C19_ForceRefreshMakesNoDifference ==
  last.op = "refreshTokens" =>
    LET forced == refreshTokens(TRUE, backendConfig, last.tokenBefore,
                                last.userIdBefore, last.arg[2])
        unforced == refreshTokens(FALSE, backendConfig, last.tokenBefore,
                                  last.userIdBefore, last.arg[2])
    IN /\ forced = unforced
       /\ last.out = forced
       /\ last.out.sent
       /\ last.out.request = LoginRequest(backendConfig, last.tokenBefore)
       /\ token = forced.token
       /\ userId = forced.userId

\* C19 witness: refreshTokens(false) with a token held sent the login request
\* and left a different token
C19_Witness ==
  /\ last.op = "refreshTokens"
  /\ last.arg[1] = FALSE
  /\ last.tokenBefore \in Tokens
  /\ last.out.exc = "none"
  /\ last.out.sent
  /\ token \in Tokens \ {last.tokenBefore}

\* C20: once initialize has completed no call changes the configuration map,
\* and the token and the user identity change in refreshTokens only.
C20_ConfigurationFrozen ==
  /\ [][(phase = "ready") => (backendConfig' = backendConfig)]_vars
  /\ [][(phase = "ready" /\ (token' # token \/ userId' # userId))
          => (last'.op = "refreshTokens")]_vars

\* C20 witness: a refresh has changed the token, and the configuration map is
\* the one initialize stored
C20_Witness ==
  /\ last.op = "refreshTokens"
  /\ token # last.tokenBefore
  /\ "token" \notin DOMAIN backendConfig
  /\ backendConfig[CFG_USER_AGENT_KEY] = <<"cudaq/">> \o getVersion

\* the keys under which initialize stores the five entries it always stores
StoredKeys ==
  <<CFG_URL_KEY, CFG_API_KEY_KEY, CFG_ACCESS_TOKEN_ID_KEY,
    CFG_ACCESS_TOKEN_SECRET_KEY, CFG_USER_AGENT_KEY>>

\* C21: the five entries are stored under five different keys and after
\* initialize(config) each key holds its own value: the base URL and the API
\* key as configured or their defaults, the two credentials, and "cudaq/"
\* followed by the version; getHeaders then sends the stored API key, when it
\* is not empty, as x-functions-key and the stored user agent as User-Agent.
C21_DistinctKeys ==
  /\ Cardinality({StoredKeys[i] : i \in 1..5}) = 5
  /\ (last.op = "initialize" /\ last.out.exc # "runtime_error") =>
       LET config == last.arg
           h == getHeaders(backendConfig, token)
           api_key == IF "api_key" \in DOMAIN config THEN config["api_key"]
                                                      ELSE DEFAULT_API_KEY
       IN /\ backendConfig[CFG_URL_KEY] =
               (IF "base_url" \in DOMAIN config THEN config["base_url"] ELSE DEFAULT_URL)
          /\ backendConfig[CFG_API_KEY_KEY] = api_key
          /\ backendConfig[CFG_ACCESS_TOKEN_ID_KEY] = env["FERMIONIQ_ACCESS_TOKEN_ID"]
          /\ backendConfig[CFG_ACCESS_TOKEN_SECRET_KEY] = env["FERMIONIQ_ACCESS_TOKEN_SECRET"]
          /\ backendConfig[CFG_USER_AGENT_KEY] = <<"cudaq/">> \o getVersion
          /\ h.exc = "none"
          /\ h.headers["User-Agent"] = <<"cudaq/">> \o getVersion
          /\ api_key # EmptyString =>
               /\ "x-functions-key" \in DOMAIN h.headers
               /\ h.headers["x-functions-key"] = api_key
  /\ last.op = "getHeaders" =>
       /\ last.out.headers["User-Agent"] = <<"cudaq/">> \o getVersion
       /\ backendConfig[CFG_API_KEY_KEY] # EmptyString =>
            last.out.headers["x-functions-key"] = backendConfig[CFG_API_KEY_KEY]
       /\ \A k \in DOMAIN last.out.headers :
            k = "x-functions-key" \/
              last.out.headers[k] # backendConfig[CFG_ACCESS_TOKEN_SECRET_KEY]

\* C21 witness: getHeaders on a helper initialized with api_key "k" sent "k"
\* as the API key and the cudaq user agent
C21_Witness ==
  /\ last.op = "getHeaders"
  /\ backendConfig[CFG_API_KEY_KEY] = <<"k">>
  /\ backendConfig[CFG_ACCESS_TOKEN_SECRET_KEY] = <<"secret">>
  /\ last.out.headers["x-functions-key"] = <<"k">>
  /\ last.out.headers["User-Agent"] = <<"cudaq/">> \o getVersion

\* C22: in the one job createJob builds for N executions the "config" and
\* "noise_model" arrays have N entries each and the "circuit" array has, for
\* the i-th execution, the format marker at 2i-1 and that execution's code,
\* as given, at 2i.
C22_ArraysAligned ==
  last.op = "createJob" =>
    LET N == Len(last.arg)
        job == last.out.payload[1]
    IN /\ last.out.exc = "none"
       /\ Len(job["config"]) = N
       /\ Len(job["noise_model"]) = N
       /\ Len(job["circuit"]) = 2 * N
       /\ \A i \in 1..N :
            /\ job["circuit"][2 * i - 1] = <<"__qir_base_compressed__">>
            /\ job["circuit"][2 * i] = last.arg[i].code
            /\ job["config"][i] = EmptyMap
            /\ job["noise_model"][i] = JNull

\* C22 witness: two executions with codes qir-b then qir-a, in that order in
\* the job
C22_Witness ==
  /\ last.op = "createJob"
  /\ Len(last.arg) = 2
  /\ last.arg[1].code = <<"qir-b">>
  /\ last.arg[2].code = <<"qir-a">>
  /\ last.out.payload[1]["circuit"] =
       <<(<<"__qir_base_compressed__">>), <<"qir-b">>,
         (<<"__qir_base_compressed__">>), <<"qir-a">> >>
  /\ Len(last.out.payload[1]["config"]) = 2

-----------------------------------------------------------------------------
(* Concurrent callers of refreshTokens(true) on one initialized helper.    *)
(* Each caller runs the body in steps at its accesses to shared state:     *)
(*   Lock       std::mutex m; std::lock_guard l(m)  (m is the caller's own)*)
(*   ReadToken  getHeaders() reads token for the Authorization header      *)
(*   Post       client.post is sent to the Transport Client                *)
(*   Receive    the login response arrives                                 *)
(*   BeginStore / EndStore   token and userId are assigned                 *)
(*   Return     the lock_guard unlocks m; the caller then reads the token  *)
(* token and userId are plain std::string members: a read or a write that  *)
(* overlaps another caller's write is a data race, and may yield the old   *)
(* value, the new one or a torn one.                                       *)

TornToken == <<"#torn#">>

Storing(t) == {u \in Callers \ {t} : pc[u] = "storing"}

\* what a read of token by caller t may yield
TokenRead(t) ==
  IF Storing(t) = {}
    THEN {token}
    ELSE {token, TornToken} \cup {response_json[u].body["jwt_token"].s : u \in Storing(t)}

FullLoginBodies ==
  {b \in LoginBodies : /\ DOMAIN b = {"jwt_token", "user_id", "expiration_date"}
                       /\ b["jwt_token"].s \in Tokens}

InitRefresh ==
  /\ NoCallers
  /\ NoDriver
  /\ env \in {e \in Envs : DOMAIN e = {"FERMIONIQ_ACCESS_TOKEN_ID", "FERMIONIQ_ACCESS_TOKEN_SECRET"}}
  /\ \E config \in Configs, b \in FullLoginBodies :
       LET r == initialize(EmptyMap, EmptyString, EmptyString, env, config,
                           [kind |-> "ok", body |-> b])
       IN /\ backendConfig = r.backendConfig
          /\ token = r.token
          /\ userId = r.userId
          /\ last = [op |-> "initialize", arg |-> config, out |-> r,
                     tokenBefore |-> EmptyString]
          /\ issued = r.token
  /\ seen = NoCall
  /\ phase = "ready"
  /\ logins = 1

Lock(t) ==
  /\ pc[t] = "idle"
  /\ ~m[t]
  /\ m' = [m EXCEPT ![t] = TRUE]
  /\ pc' = [pc EXCEPT ![t] = "locked"]
  /\ UNCHANGED <<hvars, inflight, response_json, headers, observed, dvars>>

ReadToken(t) ==
  /\ pc[t] = "locked"
  /\ \E tok \in TokenRead(t) : headers' = [headers EXCEPT ![t] = tok]
  /\ pc' = [pc EXCEPT ![t] = "built"]
  /\ UNCHANGED <<hvars, m, inflight, response_json, observed, dvars>>

Post(t) ==
  /\ pc[t] = "built"
  /\ inflight' = inflight \cup {t}
  /\ logins' = logins + 1
  /\ pc' = [pc EXCEPT ![t] = "posted"]
  /\ UNCHANGED <<backendConfig, token, userId, env, phase, last, issued, seen,
                 m, response_json, headers, observed, dvars>>

Receive(t) ==
  /\ pc[t] = "posted"
  /\ \E b \in FullLoginBodies :
       response_json' = [response_json EXCEPT ![t] = [kind |-> "ok", body |-> b]]
  /\ inflight' = inflight \ {t}
  /\ pc' = [pc EXCEPT ![t] = "received"]
  /\ UNCHANGED <<hvars, m, headers, observed, dvars>>

BeginStore(t) ==
  /\ pc[t] = "received"
  /\ pc' = [pc EXCEPT ![t] = "storing"]
  /\ UNCHANGED <<hvars, m, inflight, response_json, headers, observed, dvars>>

EndStore(t) ==
  /\ pc[t] = "storing"
  /\ token' \in {response_json[t].body["jwt_token"].s}
                  \cup (IF Storing(t) = {} THEN {} ELSE {TornToken})
  /\ userId' = response_json[t].body["user_id"].s
  /\ issued' = response_json[t].body["jwt_token"].s
  /\ pc' = [pc EXCEPT ![t] = "stored"]
  /\ UNCHANGED <<backendConfig, env, phase, logins, last, seen,
                 m, inflight, response_json, headers, observed, dvars>>

Return(t) ==
  /\ pc[t] = "stored"
  /\ m' = [m EXCEPT ![t] = FALSE]
  /\ \E tok \in TokenRead(t) : observed' = [observed EXCEPT ![t] = tok]
  /\ pc' = [pc EXCEPT ![t] = "returned"]
  /\ UNCHANGED <<hvars, inflight, response_json, headers, dvars>>

NextRefresh ==
  \E t \in Callers :
    \/ Lock(t)
    \/ ReadToken(t)
    \/ Post(t)
    \/ Receive(t)
    \/ BeginStore(t)
    \/ EndStore(t)
    \/ Return(t)

SpecRefresh == InitRefresh /\ [][NextRefresh]_vars

\* C2 (as claimed): with N callers inside refreshTokens(true) at once, at most
\* one login exchange is in flight at any time, and once all have returned
\* exactly one login exchange has reached the Transport Client since they
\* started and all callers see the same token.
C2_RefreshIsExclusive ==
  /\ Cardinality(inflight) <= 1
  /\ (\A t \in Callers : pc[t] = "returned") =>
       /\ logins = 1 + 1
       /\ \A t, u \in Callers : observed[t] = observed[u]

-----------------------------------------------------------------------------
(* The serialized Async Result: a sequence of fields, each a string.       *)
(*   name, job id, number of configuration entries, then each key and its  *)
(*   value in key order, the status, and then the result's counts (done)   *)
(*   or the error's kind and message (failed).                             *)
(* The status path is not written: it is rebuilt from the job id.          *)

DigitValue(ch) == CASE ch = "0" -> 0 [] ch = "1" -> 1 [] ch = "2" -> 2 [] ch = "3" -> 3
                    [] ch = "4" -> 4 [] ch = "5" -> 5 [] ch = "6" -> 6 [] ch = "7" -> 7
                    [] ch = "8" -> 8 [] ch = "9" -> 9

RECURSIVE NaturalValue(_)
NaturalValue(digits) ==
  IF digits = << >> THEN 0
  ELSE 10 * NaturalValue(SubSeq(digits, 1, Len(digits) - 1)) + DigitValue(digits[Len(digits)])

DecimalValue(text) ==
  IF text # << >> /\ Head(text) = "-" THEN 0 - NaturalValue(Tail(text))
  ELSE NaturalValue(text)

ConfigKeyOrder ==
  <<"access_token_id", "access_token_secret", "api_key", "base_url",
    "noise_model", "remote_config", "user_agent">>

BitstringOrder == <<"00", "01", "10", "11">>

KeysIn(order, map) == SelectSeq(order, LAMBDA k : k \in DOMAIN map)

RECURSIVE Entries(_, _)
Entries(keys, map) ==
  IF keys = << >> THEN << >>
  ELSE <<(<<Head(keys)>>), map[Head(keys)]>> \o Entries(Tail(keys), map)

CountsAsText(counts) == [k \in DOMAIN counts |-> to_string(counts[k])]
TextAsCounts(texts) == [k \in DOMAIN texts |-> DecimalValue(texts[k])]

\* a variant that writes every handle without a result as pending
serialize_DropsFailure(x) ==
  <<x.name, x.jobId, to_string(Cardinality(DOMAIN x.config))>>
    \o Entries(KeysIn(ConfigKeyOrder, x.config), x.config)
    \o (IF x.status = "done"
          THEN <<(<<"done">>), to_string(Cardinality(DOMAIN x.result[1].counts))>>
                 \o Entries(KeysIn(BitstringOrder, x.result[1].counts),
                            CountsAsText(x.result[1].counts))
          ELSE <<(<<"pending">>)>>)

serialize(x) ==
  <<x.name, x.jobId, to_string(Cardinality(DOMAIN x.config))>>
    \o Entries(KeysIn(ConfigKeyOrder, x.config), x.config)
    \o <<(<<x.status>>)>>
    \o (IF x.status = "done"
          THEN <<to_string(Cardinality(DOMAIN x.result[1].counts))>>
                 \o Entries(KeysIn(BitstringOrder, x.result[1].counts),
                            CountsAsText(x.result[1].counts))
        ELSE IF x.status = "failed"
          THEN <<(<<x.error.exc>>), x.error.what>>
        ELSE << >>)

\* the map written as n entries starting after position at
EntriesAt(bytes, at, n) ==
  [k \in {bytes[at + 2 * i - 1][1] : i \in 1..n} |->
     bytes[at + 2 * (CHOOSE i \in 1..n : bytes[at + 2 * i - 1][1] = k)]]

deserialize(bytes) ==
  LET n == DecimalValue(bytes[3])
      at == 3 + 2 * n
      status == bytes[at + 1][1]
  IN [name   |-> bytes[1],
      jobId  |-> bytes[2],
      path   |-> EmptyString,
      config |-> EntriesAt(bytes, 3, n),
      status |-> status,
      result |-> IF status = "done"
                   THEN <<[counts |-> TextAsCounts(
                             EntriesAt(bytes, at + 2, DecimalValue(bytes[at + 2])))]>>
                   ELSE << >>,
      error  |-> IF status = "failed"
                   THEN [exc |-> bytes[at + 2][1], what |-> bytes[at + 3]]
                   ELSE NoError]

-----------------------------------------------------------------------------
(* The Job Lifecycle Driver on one job:                                    *)
(*   Created -> Submitted -> Polling -> Done | Failed,                     *)
(* the backend's job, and the handle saved and resumed in a new process.   *)

Fail(x, exc, what) ==
  [x EXCEPT !.status = "failed", !.error = [exc |-> exc, what |-> what]]

\* one status check of a pending handle against a status response
PollHandle(x, statusResponse) ==
  LET done == jobIsDone(statusResponse)
      r == processResults(statusResponse, x.jobId)
  IN IF done.exc # "none" THEN Fail(x, done.exc, done.what)
     ELSE IF ~done.ret THEN x
     ELSE IF r.exc # "none" THEN Fail(x, r.exc, EmptyString)
     ELSE [x EXCEPT !.status = "done", !.result = <<r.result>>]

StateOf(x) == CASE x.status = "pending" -> "Polling"
                [] x.status = "done"    -> "Done"
                [] x.status = "failed"  -> "Failed"

\* what the backend may answer to a status check of a job it holds: a status
\* with or without a status code while the job is not finished, and
\* "finished" with a status code once it is
BackendCodes == {0 - 1, 0, 7, MaxStatusCode}

BackendStates ==
  {r \in StatusResponses :
     /\ "status" \in DOMAIN r /\ r["status"].t = "string"
     /\ ("status_code" \in DOMAIN r =>
           r["status_code"].t = "number" /\ r["status_code"].n \in BackendCodes)
     /\ (r["status"].s = <<"finished">> => "status_code" \in DOMAIN r)
     /\ (r["status"].s # <<"finished">> /\ "status_code" \in DOMAIN r =>
           r["status_code"].n = 0)}

Unfinished == {r \in BackendStates : r["status"].s # <<"finished">>}

InitDriver ==
  /\ NoCallers
  /\ NoDriver
  /\ env \in {e \in Envs : DOMAIN e = {"FERMIONIQ_ACCESS_TOKEN_ID", "FERMIONIQ_ACCESS_TOKEN_SECRET"}}
  /\ \E config \in {c \in Configs : "api_key" \notin DOMAIN c}, b \in FullLoginBodies :
       LET r == initialize(EmptyMap, EmptyString, EmptyString, env, config,
                           [kind |-> "ok", body |-> b])
       IN /\ backendConfig = r.backendConfig
          /\ token = r.token
          /\ userId = r.userId
          /\ last = [op |-> "initialize", arg |-> config, out |-> r,
                     tokenBefore |-> EmptyString]
          /\ issued = r.token
  /\ seen = NoCall
  /\ phase = "ready"
  /\ logins = 1

\* Created -> Submitted, or Failed on a transport error
Submit ==
  /\ state = "Created"
  /\ \E circuitCodes \in {l \in ExecutionLists : Len(l) >= 1},
        answer \in {[kind |-> "ok", body |-> r] : r \in PostResponses}
                     \cup {[kind |-> "transport_error", body |-> EmptyMap]} :
       LET job == createJob(backendConfig, token, circuitCodes)
           x == [NoAsyncResult EXCEPT !.name = name, !.config = backendConfig,
                                      !.status = "pending"]
       IN /\ created' = created + 1
          /\ submissions' = submissions + 1
          /\ lastRequest' = [kind |-> "submit", path |-> job.path]
          /\ IF answer.kind = "transport_error"
               THEN /\ asyncResult' = Fail(x, "transport_error", EmptyString)
                    /\ state' = "Failed"
                    /\ UNCHANGED <<posted, backend>>
               ELSE /\ asyncResult' = x
                    /\ state' = "Submitted"
                    /\ posted' = answer.body
                    /\ backend' \in Unfinished
          /\ twin' = asyncResult'
  /\ UNCHANGED <<hvars, cvars, polled, processed, waited, saved, resumes>>

\* Submitted -> Polling, or Failed when the submission response is malformed
StartPolling ==
  /\ state = "Submitted"
  /\ LET id == extractJobId(posted)
         p == constructGetJobPathFromResponse(backendConfig, posted)
     IN IF id.exc # "none" \/ p.exc # "none"
          THEN /\ asyncResult' = Fail(asyncResult,
                                      IF id.exc # "none" THEN id.exc ELSE p.exc,
                                      <<"id">>)
               /\ state' = "Failed"
          ELSE /\ asyncResult' = [asyncResult EXCEPT !.jobId = id.id, !.path = p.path]
               /\ state' = "Polling"
  /\ twin' = asyncResult'
  /\ UNCHANGED <<hvars, cvars, posted, backend, submissions, created,
                 lastRequest, polled, processed, waited, saved, resumes>>

\* Polling -> Polling | Done | Failed: wait, ask for the status, decide
Poll ==
  /\ state = "Polling"
  /\ waited' = nextResultPollingInterval(IF polled = EmptyMap THEN posted ELSE polled)
  /\ lastRequest' = [kind |-> "status", path |-> asyncResult.path]
  /\ polled' = backend
  /\ asyncResult' = PollHandle(asyncResult, backend)
  /\ twin' = PollHandle(twin, backend)
  /\ state' = StateOf(asyncResult')
  /\ processed' = IF asyncResult'.status = "done"
                    THEN <<backend, asyncResult.jobId>> ELSE processed
  /\ UNCHANGED <<hvars, cvars, posted, backend, submissions, created,
                 saved, resumes>>

\* the job advances at the backend; a finished job stays as it is
BackendProgress ==
  /\ state \in {"Submitted", "Polling"}
  /\ backend["status"].s # <<"finished">>
  /\ backend' \in BackendStates \ {backend}
  /\ UNCHANGED <<hvars, cvars, state, asyncResult, twin, posted, submissions,
                 created, lastRequest, polled, processed, waited, saved, resumes>>

\* the handle is written out, read back in a new process, and a helper is
\* initialized there from the configuration it carries
Resume ==
  /\ state \in {"Polling", "Done", "Failed"}
  /\ resumes < MaxResumes
  /\ saved' = serialize(asyncResult)
  /\ \E b \in FullLoginBodies :
       LET x == deserialize(saved')
           h == initialize(EmptyMap, EmptyString, EmptyString, env, x.config,
                           [kind |-> "ok", body |-> b])
           p == constructGetJobPath(h.backendConfig, x.jobId)
       IN /\ backendConfig' = h.backendConfig
          /\ token' = h.token
          /\ userId' = h.userId
          /\ issued' = h.token
          /\ asyncResult' = IF x.status = "pending" THEN [x EXCEPT !.path = p.path] ELSE x
          /\ state' = StateOf(x)
  /\ lastRequest' = NoRequestSent
  /\ polled' = EmptyMap
  /\ waited' = 0
  /\ resumes' = resumes + 1
  /\ UNCHANGED <<env, phase, logins, last, seen, cvars, twin, posted, backend,
                 submissions, created, processed>>

NextDriver ==
  \/ Submit
  \/ StartPolling
  \/ Poll
  \/ BackendProgress
  \/ Resume

SpecDriver == InitDriver /\ [][NextDriver]_vars

\* the driver's loop keeps issuing status checks while the handle is pending
SpecDriverFair == SpecDriver /\ WF_vars(Poll)

-----------------------------------------------------------------------------
(* Properties of the job lifecycle. *)

BackendFinished ==
  /\ "status" \in DOMAIN backend
  /\ backend["status"].s = <<"finished">>

\* C3: once the backend reports "finished" (with any status code) for a job
\* the driver is polling, the driver eventually reaches Done when the code
\* is 0 and Failed when it is not, and a driver that is Done or Failed stays
\* so.
C3_NoEndlessPolling ==
  /\ (state = "Polling" /\ BackendFinished)
       ~> (/\ BackendFinished
           /\ backend["status_code"].n = 0 => state = "Done"
           /\ backend["status_code"].n # 0 => state = "Failed")
  /\ [][(state \in {"Done", "Failed"}) => (state' = state)]_vars

\* C3 witness: the driver is Done after polling a finished job
C3_Witness ==
  /\ state = "Done"
  /\ BackendFinished
  /\ polled = backend

RunningOnly == [status |-> JStr(<<"running">>)]

FinishedOk == [status |-> JStr(<<"finished">>), status_code |-> JNum(0)]

\* C4 (as claimed): after a submission answered {"id": "job-1"}, a status
\* poll answered {"status": "running"} leaves the driver in Polling with no
\* failure and no result stored, and a poll answered {"status": "finished",
\* "status_code": 0} makes it Done, processResults having been called on that
\* response with the job id taken from the submission response.
C4_RunningThenFinished ==
  (HasString(posted, "id") /\ posted["id"].s = <<"job-1">>) =>
    /\ polled = RunningOnly =>
         /\ state = "Polling"
         /\ asyncResult.status = "pending"
         /\ asyncResult.result = << >>
    /\ polled = FinishedOk =>
         /\ state = "Done"
         /\ processed = <<polled, <<"job-1">> >>
         /\ asyncResult.jobId = <<"job-1">>

FailurePrefix == <<"Job failed to execute. Status code = ">>

\* C5: for every status code c other than 0, a status poll answered
\* "finished" with status_code c makes the driver Failed with an error whose
\* message carries c in decimal, processResults is not called and the handle
\* holds no result.
C5_FailedJobFails ==
  (IsStatus(polled, "finished") /\ HasCode(polled) /\ polled["status_code"].n # 0) =>
    /\ state = "Failed"
    /\ asyncResult.status = "failed"
    /\ asyncResult.error.exc = "runtime_error"
    /\ SubSeq(asyncResult.error.what, 1, 1) = FailurePrefix
    /\ DecimalValue(Tail(asyncResult.error.what)) = polled["status_code"].n
    /\ processed = << >>
    /\ asyncResult.result = << >>

\* C5 witness: the poll was answered "finished" with status code 7
C5_Witness ==
  /\ IsStatus(polled, "finished")
  /\ HasCode(polled)
  /\ polled["status_code"].n = 7
  /\ state = "Failed"

\* C7: the job is submitted, and createJob called, at most once however often
\* the handle is saved and resumed; a resumed process sends no submission,
\* and the status request it sends goes to the path made of the base URL,
\* "/api/jobs/" and the job id the handle carries.
C7_ResumeNeverResubmits ==
  /\ submissions <= 1
  /\ created <= 1
  /\ state \in {"Submitted", "Polling", "Done"} => (submissions = 1 /\ created = 1)
  /\ resumes > 0 =>
       /\ lastRequest.kind \in {"none", "status"}
       /\ lastRequest.kind = "status" =>
            /\ asyncResult.jobId = posted["id"].s
            /\ lastRequest.path =
                 backendConfig[CFG_URL_KEY] \o <<"/api/jobs/">> \o asyncResult.jobId

\* C7 witness: a handle resumed twice whose process has sent a status request
C7_Witness ==
  /\ resumes = 2
  /\ state = "Polling"
  /\ lastRequest.kind = "status"
  /\ submissions = 1

SameHandle(x, y) ==
  /\ x.name = y.name
  /\ x.jobId = y.jobId
  /\ x.config = y.config
  /\ x.result = y.result
  /\ x.status = y.status
  /\ x.error = y.error

\* C8: in every state of the Async Result (pending, done, failed) reading
\* back what was written gives the same backend name, job id, configuration,
\* result and state, and a handle that was saved and resumed is, after the
\* same status responses, in the same state as one that never was.
C8_RoundTrip ==
  asyncResult.status # "none" =>
    /\ SameHandle(deserialize(serialize(asyncResult)), asyncResult)
    /\ SameHandle(asyncResult, twin)

\* C8 witness: a handle that failed, was resumed, and is still failed
C8_Witness ==
  /\ resumes > 0
  /\ asyncResult.status = "failed"
  /\ asyncResult.error.exc = "runtime_error"
  /\ CFG_REMOTE_CONFIG_KEY \in DOMAIN asyncResult.config

-----------------------------------------------------------------------------
(* jobIsDone called again and again on one initialized helper while its    *)
(* token is refreshed in between: the first call is remembered and every   *)
(* later call on the same response is compared with it.                    *)

JobIsDoneAgain ==
  /\ phase = "ready"
  /\ \E getJobResponse \in BackendStates :
       /\ last' = [op |-> "jobIsDone", arg |-> getJobResponse,
                   out |-> jobIsDone(getJobResponse), tokenBefore |-> token]
       /\ seen' = IF seen = NoCall THEN last' ELSE seen
  /\ UNCHANGED <<backendConfig, token, userId, env, phase, logins, issued,
                 cvars, dvars>>

NextPure ==
  \/ RefreshTokens
  \/ JobIsDoneAgain

SpecPure == InitDriver /\ [][NextPure]_vars

\* C18: nextResultPollingInterval returns a positive duration for every
\* response, and the driver has waited a positive time before every status
\* request it sent, the first one after submission included.
C18_PositiveInterval ==
  /\ \A r \in PostResponses \cup StatusResponses : nextResultPollingInterval(r) > 0
  /\ lastRequest.kind = "status" => waited > 0

\* C18 witness: the first status request of a process, sent after a wait of
\* one second
C18_Witness ==
  /\ lastRequest.kind = "status"
  /\ resumes = 0
  /\ waited = 1000000

====
